---- MODULE Spec2Model ----
(***************************************************************************)
(* Finite-field, extension-field, elliptic-curve and pairing arithmetic of  *)
(* the ecc-pairings library (src/src/field.rs, src/src/elliptic_curve.rs,  *)
(* src/src/pairings.rs), modelled as the sessions a caller can run against *)
(* it.                                                                     *)
(*                                                                         *)
(* A PrimeField<P> element is its stored integer `value` (the struct's     *)
(* only field); rug's Integer is unbounded and its `%` truncates toward    *)
(* zero, so the remainder takes the sign of the dividend.                  *)
(***************************************************************************)
EXTENDS Integers, Sequences, FiniteSets, TLC

VARIABLES
    P,        \* the const generic modulus of PrimeField<P>
    reg,      \* prime-field session: three caller-held elements
    fcall,    \* prime-field session: the last Field call and what it returned
    sq,       \* PrimeField::sqrt in progress: its locals and its position
    N,        \* the const generic degree of FiniteField<P, N>
    poly,     \* extension-field session: the shared `polynomial` vector
    freg,     \* extension-field session: two caller-held elements
    qcall,    \* extension-field session: the last Field call and its result
    curve,    \* curve session: weierstrass_coefficients [a1, a2, a3, a4, a5, a6]
    base,     \* curve session: the point the caller started from
    acc,      \* curve session: the point the caller holds now
    summands, \* curve session: k when acc was built as base + ... + base (k
              \* summands) by add alone, 0 otherwise
    ecall,    \* curve session: the last ECPoint call and what it returned
    pp,       \* pairing session: the caller's first point
    pq,       \* pairing session: the caller's second point
    pcall,    \* pairing session: the last call and what it returned
    tt,       \* tate_pairing in progress: its call stack and its position
    rp        \* random_point in progress: its locals and its position

fpVars == <<reg, fcall>>
fqVars == <<N, poly, freg, qcall>>
ecVars == <<curve, base, acc, summands, ecall>>
prVars == <<pp, pq, pcall, tt, rp>>
vars == <<P, reg, fcall, sq, N, poly, freg, qcall, curve, base, acc, summands, ecall,
          pp, pq, pcall, tt, rp>>

(***************************************************************************)
(* Bounds of the model.                                                    *)
(***************************************************************************)
\* i64 arguments of zmul / zpow are drawn from -MaxK..MaxK
MaxK == 3
\* Integer exponents of pow are drawn from 0..MaxExp
MaxExp == 4
\* iterations of sqrt's main loop that are followed
MaxIter == 4
\* summands of base + ... + base that are counted
MaxSummands == 14

FpPrimes == {3, 5}
SqrtPrimes == {3, 5, 7, 11, 13, 17}
Regs == {1, 2, 3}

(***************************************************************************)
(* rug::Integer arithmetic                                                 *)
(***************************************************************************)
\* Integer % u32 and Integer / u8: truncation toward zero
TruncRem(a, m) == IF a >= 0 THEN a % m ELSE -((-a) % m)
TruncDiv(a, m) == IF a >= 0 THEN a \div m ELSE -((-a) \div m)

\* Result<Box<Self>, ErrorKind>
Ok(v) == [ok |-> TRUE, val |-> v, err |-> "none"]
Err(e) == [ok |-> FALSE, val |-> 0, err |-> e]

(***************************************************************************)
(* impl Field for PrimeField<P>                                            *)
(***************************************************************************)
zero == 0
one == 1
is_zero(x) == x = zero
order == P

add(x, y) == TruncRem(x + y, P)
mul(x, y) == TruncRem(x * y, P)
zmul(x, k) == TruncRem(x * k, P)
neg(x) == -x
square(x) == mul(x, x)

RECURSIVE pow(_, _)
pow(x, y) ==
    IF y = 0 THEN one
    ELSE IF y = 1 THEN x
    ELSE LET n == TruncDiv(y, 2)
         IN  IF y % 2 = 1 THEN mul(pow(x, n), pow(x, n + 1))
             ELSE mul(pow(x, n), pow(x, n))

\* zpow and invert call each other: zpow_pos is zpow's y >= 0 part, which is
\* all that invert (y = P - 2) and the y < 0 branch (after negating y) reach.
RECURSIVE zpow_pos(_, _)
zpow_pos(x, y) ==
    IF is_zero(x) THEN zero
    ELSE IF y = 0 THEN one
    ELSE IF y = 1 THEN x
    ELSE IF y % 2 = 1
         THEN LET n == (y - 1) \div 2 IN mul(zpow_pos(x, n), zpow_pos(x, n + 1))
         ELSE LET n == y \div 2 IN mul(zpow_pos(x, n), zpow_pos(x, n))

invert(x) == IF is_zero(x) THEN Err("NoInverse") ELSE Ok(zpow_pos(x, order - 2))

zpow(x, y) ==
    IF is_zero(x) THEN zero
    ELSE IF y < 0 THEN zpow_pos(invert(x).val, -y)
    ELSE zpow_pos(x, y)

div(x, y) == LET i == invert(y) IN IF i.ok THEN Ok(mul(x, i.val)) ELSE i

(***************************************************************************)
(* Prime-field session: a caller holding three elements applies the Field  *)
(* operations to them, each result replacing the first operand.            *)
(***************************************************************************)
\* the callers' subtraction idiom x.add(&y.neg())
sub(x, y) == add(x, neg(y))

FCall(op, x, y, k, out) == [op |-> op, x |-> x, y |-> y, k |-> k, out |-> out]

Store(i, res) == IF res.ok THEN [reg EXCEPT ![i] = res.val] ELSE reg

FpIdle ==
    /\ reg = [i \in Regs |-> 0]
    /\ fcall = FCall("new", 0, 0, 0, Ok(0))

SqLocals(pc, self, q, s, z, m, c, t, r, i, out) ==
    [pc |-> pc, self |-> self, q |-> q, s |-> s, z |-> z, m |-> m,
     c |-> c, t |-> t, r |-> r, i |-> i, out |-> out]

SqIdle == sq = SqLocals("idle", 0, 0, 0, 0, 0, 0, 0, 0, 0, Ok(0))

\* FiniteField<P, N> values: the coords vector, or the panic that ended the call
Elem(coords) == [panic |-> FALSE, coords |-> coords]
Panic == [panic |-> TRUE, coords |-> <<>>]

QCall(op, x, y, k, out) == [op |-> op, x |-> x, y |-> y, k |-> k, out |-> out]

FqIdle ==
    /\ N = 1
    /\ poly = <<0>>
    /\ freg = [i \in {1, 2} |-> Elem(<<0>>)]
    /\ qcall = QCall("new", Elem(<<>>), Elem(<<>>), 0, Elem(<<>>))

\* ECPoint<F>: INFPOINT, or RATIONALPOINT with coord (x, y)
Infinity == [inf |-> TRUE, x |-> 0, y |-> 0]
Affine(x, y) == [inf |-> FALSE, x |-> x, y |-> y]

\* what an ECPoint call returned: a point (pt), or a line value or error
\* (res); the field divisions it performed; whether it panicked
ECall(op, p, q, r, pt, res, divs, panic) ==
    [op |-> op, p |-> p, q |-> q, r |-> r, pt |-> pt, res |-> res,
     divs |-> divs, panic |-> panic]

EcIdle ==
    /\ curve = <<0, 0, 0, 0, 0, 0>>
    /\ base = Infinity
    /\ acc = Infinity
    /\ summands = 0
    /\ ecall = ECall("new", Infinity, Infinity, Infinity, Infinity, Ok(0), 0, FALSE)

\* what a pairing-level call returned (res), and how many double steps, add
\* steps, line evaluations and miller calls it executed
PCall(op, n, x, y, res, doubles, adds, lines, millers) ==
    [op |-> op, n |-> n, x |-> x, y |-> y, res |-> res, doubles |-> doubles,
     adds |-> adds, lines |-> lines, millers |-> millers]

\* tate_pairing's position, the frames of the calls waiting for a recursive
\* call, the Q of the running call, the Result last returned, and the number
\* of tate_pairing calls entered
Tate(pc, p, n, k, cur, stack, ret, calls) ==
    [pc |-> pc, p |-> p, n |-> n, k |-> k, cur |-> cur, stack |-> stack,
     ret |-> ret, calls |-> calls]

\* random_point's position and locals
RpLocals(pc, x, b, c, half, delta, pt) ==
    [pc |-> pc, x |-> x, b |-> b, c |-> c, half |-> half, delta |-> delta,
     pt |-> pt]

PairIdle ==
    /\ pp = Infinity
    /\ pq = Infinity
    /\ pcall = PCall("new", 0, 0, 0, Ok(0), 0, 0, 0, 0)

TateIdle == tt = Tate("idle", Infinity, 0, 0, Infinity, <<>>, Ok(0), 0)

RpIdle == rp = RpLocals("idle", 0, 0, 0, Ok(0), 0, Infinity)

PrIdle == PairIdle /\ TateIdle /\ RpIdle

InitFp ==
    /\ P \in FpPrimes
    /\ reg \in [Regs -> 0..(P - 1)]
    /\ fcall = FCall("new", 0, 0, 0, Ok(0))
    /\ SqIdle
    /\ FqIdle
    /\ EcIdle
    /\ PrIdle

FpAdd ==
    \E i, j \in Regs :
        /\ reg' = Store(i, Ok(add(reg[i], reg[j])))
        /\ fcall' = FCall("add", reg[i], reg[j], 0, Ok(add(reg[i], reg[j])))
        /\ UNCHANGED <<P, sq, fqVars, ecVars, prVars>>

FpMul ==
    \E i, j \in Regs :
        /\ reg' = Store(i, Ok(mul(reg[i], reg[j])))
        /\ fcall' = FCall("mul", reg[i], reg[j], 0, Ok(mul(reg[i], reg[j])))
        /\ UNCHANGED <<P, sq, fqVars, ecVars, prVars>>

FpDiv ==
    \E i, j \in Regs :
        /\ reg' = Store(i, div(reg[i], reg[j]))
        /\ fcall' = FCall("div", reg[i], reg[j], 0, div(reg[i], reg[j]))
        /\ UNCHANGED <<P, sq, fqVars, ecVars, prVars>>

FpSub ==
    \E i, j \in Regs :
        /\ reg' = Store(i, Ok(sub(reg[i], reg[j])))
        /\ fcall' = FCall("sub", reg[i], reg[j], 0, Ok(sub(reg[i], reg[j])))
        /\ UNCHANGED <<P, sq, fqVars, ecVars, prVars>>

FpNeg ==
    \E i \in Regs :
        /\ reg' = Store(i, Ok(neg(reg[i])))
        /\ fcall' = FCall("neg", reg[i], 0, 0, Ok(neg(reg[i])))
        /\ UNCHANGED <<P, sq, fqVars, ecVars, prVars>>

FpSquare ==
    \E i \in Regs :
        /\ reg' = Store(i, Ok(square(reg[i])))
        /\ fcall' = FCall("square", reg[i], 0, 0, Ok(square(reg[i])))
        /\ UNCHANGED <<P, sq, fqVars, ecVars, prVars>>

FpInvert ==
    \E i \in Regs :
        /\ reg' = Store(i, invert(reg[i]))
        /\ fcall' = FCall("invert", reg[i], 0, 0, invert(reg[i]))
        /\ UNCHANGED <<P, sq, fqVars, ecVars, prVars>>

FpZmul ==
    \E i \in Regs, k \in (-MaxK)..MaxK :
        /\ reg' = Store(i, Ok(zmul(reg[i], k)))
        /\ fcall' = FCall("zmul", reg[i], 0, k, Ok(zmul(reg[i], k)))
        /\ UNCHANGED <<P, sq, fqVars, ecVars, prVars>>

FpZpow ==
    \E i \in Regs, k \in (-MaxK)..MaxK :
        /\ reg' = Store(i, Ok(zpow(reg[i], k)))
        /\ fcall' = FCall("zpow", reg[i], 0, k, Ok(zpow(reg[i], k)))
        /\ UNCHANGED <<P, sq, fqVars, ecVars, prVars>>

FpPow ==
    \E i \in Regs, e \in 0..MaxExp :
        /\ reg' = Store(i, Ok(pow(reg[i], e)))
        /\ fcall' = FCall("pow", reg[i], 0, e, Ok(pow(reg[i], e)))
        /\ UNCHANGED <<P, sq, fqVars, ecVars, prVars>>

NextFp ==
    \/ FpAdd \/ FpSub \/ FpMul \/ FpDiv \/ FpNeg \/ FpSquare
    \/ FpInvert \/ FpZmul \/ FpZpow \/ FpPow

SpecFp == InitFp /\ [][NextFp]_vars

(***************************************************************************)
(* Claims about the prime field, checked under SpecFp.                     *)
(***************************************************************************)
Canonical(x) == x \in 0..(P - 1)

\* C1: from canonical inputs, every value produced by the field operations
\* has its stored integer in [0, P); neg(x) is (P - x) mod P, and
\* add(x, neg(y)) is the canonical residue of x - y.
C1_CanonicalRepresentative ==
    /\ \A i \in Regs : Canonical(reg[i])
    /\ (fcall.op = "neg" /\ Canonical(fcall.x)) => fcall.out.val = (P - fcall.x) % P
    /\ (fcall.op = "sub" /\ Canonical(fcall.x) /\ Canonical(fcall.y)) =>
           fcall.out.val = (fcall.x - fcall.y) % P

AddCommutes == \A i, j \in Regs : add(reg[i], reg[j]) = add(reg[j], reg[i])
MulCommutes == \A i, j \in Regs : mul(reg[i], reg[j]) = mul(reg[j], reg[i])
AddAssociates ==
    \A i, j, l \in Regs :
        add(add(reg[i], reg[j]), reg[l]) = add(reg[i], add(reg[j], reg[l]))
MulAssociates ==
    \A i, j, l \in Regs :
        mul(mul(reg[i], reg[j]), reg[l]) = mul(reg[i], mul(reg[j], reg[l]))
Distributes ==
    \A i, j, l \in Regs :
        mul(reg[i], add(reg[j], reg[l])) = add(mul(reg[i], reg[j]), mul(reg[i], reg[l]))
AddZero == \A i \in Regs : add(reg[i], zero) = reg[i]
MulOne == \A i \in Regs : mul(reg[i], one) = reg[i]
AddNeg == \A i \in Regs : add(reg[i], neg(reg[i])) = zero
MulInvert ==
    \A i \in Regs : ~is_zero(reg[i]) => mul(reg[i], invert(reg[i]).val) = one

\* C2: the field axioms hold under structural equality for all elements
\* reachable by field operations from canonical values.
C2_FieldAxioms ==
    /\ AddCommutes /\ MulCommutes /\ AddAssociates /\ MulAssociates
    /\ Distributes /\ AddZero /\ MulOne /\ AddNeg /\ MulInvert

\* x multiplied by itself k times, starting from one
RECURSIVE IterMul(_, _)
IterMul(x, k) == IF k = 0 THEN one ELSE mul(IterMul(x, k - 1), x)

\* C4: zpow(x, k) for k >= 0 is x multiplied by itself k times (one for
\* k = 0, also when x is zero); for k < 0 and x /= 0 it is
\* zpow(invert(x), -k); for x zero and k < 0 it fails with NoInverse.
\* (The prime field's zpow; the extension field's is ff_zpow.)
C4_ZpowConventions ==
    fcall.op = "zpow" =>
        /\ fcall.k >= 0 => fcall.out = Ok(IterMul(fcall.x, fcall.k))
        /\ (fcall.k < 0 /\ ~is_zero(fcall.x)) =>
               fcall.out = Ok(zpow(invert(fcall.x).val, -fcall.k))
        /\ (fcall.k < 0 /\ is_zero(fcall.x)) => fcall.out = Err("NoInverse")

(***************************************************************************)
(* PrimeField::sqrt, one action per loop iteration.                        *)
(***************************************************************************)
\* i64 `^` is bitwise exclusive or (two's complement)
RECURSIVE BitXor(_, _)
BitXor(a, b) ==
    IF a = 0 THEN b
    ELSE IF b = 0 THEN a
    ELSE 2 * BitXor(a \div 2, b \div 2) + (IF a % 2 = b % 2 THEN 0 ELSE 1)

BitNot(a) == -a - 1

xor(a, b) ==
    IF a >= 0 /\ b >= 0 THEN BitXor(a, b)
    ELSE IF a < 0 /\ b < 0 THEN BitXor(BitNot(a), BitNot(b))
    ELSE IF a < 0 THEN BitNot(BitXor(BitNot(a), b))
    ELSE BitNot(BitXor(a, BitNot(b)))

\* a uniform draw of random_element
random_element == 0..(P - 1)

InitSqrt ==
    /\ P \in SqrtPrimes
    /\ FpIdle
    /\ FqIdle
    /\ EcIdle
    /\ PrIdle
    /\ \E x \in 0..(P - 1) :
           sq = SqLocals("euler", x, order - 1, 0, 0, 0, 0, 0, 0, 0, Ok(0))

\* if self.zpow(q / 2) != one { return Err(NonQuadraticResidue) }
SqrtEuler ==
    /\ sq.pc = "euler"
    /\ sq' = IF zpow(sq.self, TruncDiv(sq.q, 2)) /= one
             THEN [sq EXCEPT !.pc = "done", !.out = Err("NonQuadraticResidue")]
             ELSE [sq EXCEPT !.pc = "halve", !.s = 0]
    /\ UNCHANGED <<P, fpVars, fqVars, ecVars, prVars>>

\* while q % 2 == 0 { s += 1; q /= 2; }   then   let mut z = one.clone();
SqrtHalve ==
    /\ sq.pc = "halve"
    /\ sq' = IF sq.q % 2 = 0
             THEN [sq EXCEPT !.s = sq.s + 1, !.q = TruncDiv(sq.q, 2)]
             ELSE [sq EXCEPT !.pc = "sample", !.z = one]
    /\ UNCHANGED <<P, fpVars, fqVars, ecVars, prVars>>

\* while z.zpow(q / 2) == one { z = z.random_element(); }
SqrtSample ==
    /\ sq.pc = "sample"
    /\ zpow(sq.z, TruncDiv(sq.q, 2)) = one
    /\ \E z \in random_element : sq' = [sq EXCEPT !.z = z]
    /\ UNCHANGED <<P, fpVars, fqVars, ecVars, prVars>>

\* let mut m = s; c = z.zpow(q); t = self.zpow(q); r = self.zpow((q + 1) / 2); i = 0
SqrtSetup ==
    /\ sq.pc = "sample"
    /\ zpow(sq.z, TruncDiv(sq.q, 2)) /= one
    /\ sq' = [sq EXCEPT !.pc = "loop", !.m = sq.s, !.c = zpow(sq.z, sq.q),
                        !.t = zpow(sq.self, sq.q),
                        !.r = zpow(sq.self, TruncDiv(sq.q + 1, 2)), !.i = 0]
    /\ UNCHANGED <<P, fpVars, fqVars, ecVars, prVars>>

\* while t != one && t != zero { b = c.zpow(2 ^ (m - i - 1)); m = i; ... }
SqrtLoop ==
    /\ sq.pc = "loop"
    /\ sq.t /= one /\ sq.t /= zero
    /\ sq.i < MaxIter
    /\ LET b == zpow(sq.c, xor(2, sq.m - sq.i - 1))
           c == square(b)
       IN  sq' = [sq EXCEPT !.m = sq.i, !.c = c, !.t = mul(sq.t, c),
                            !.r = mul(sq.r, b), !.i = sq.i + 1]
    /\ UNCHANGED <<P, fpVars, fqVars, ecVars, prVars>>

\* if t.is_zero() { return Ok(self.zero()) }  Ok(r.zero())
SqrtReturn ==
    /\ sq.pc = "loop"
    /\ ~(sq.t /= one /\ sq.t /= zero)
    /\ sq' = [sq EXCEPT !.pc = "done", !.out = Ok(zero)]
    /\ UNCHANGED <<P, fpVars, fqVars, ecVars, prVars>>

NextSqrt ==
    \/ SqrtEuler \/ SqrtHalve \/ SqrtSample \/ SqrtSetup \/ SqrtLoop \/ SqrtReturn

SpecSqrt == InitSqrt /\ [][NextSqrt]_vars

(***************************************************************************)
(* Claims about sqrt, checked under SpecSqrt.                              *)
(***************************************************************************)
IsResidue(x) == \E w \in 1..(P - 1) : (w * w) % P = x

\* C3: every sqrt call that returns is right: sqrt(0) returns 0; for a
\* non-zero quadratic residue x it returns Ok(r) with r * r == x; for a
\* non-residue it returns NonQuadraticResidue.
C3_SqrtCorrect ==
    sq.pc = "done" =>
        /\ sq.self = 0 => sq.out = Ok(zero)
        /\ (sq.self /= 0 /\ IsResidue(sq.self)) =>
               (sq.out.ok /\ mul(sq.out.val, sq.out.val) = sq.self)
        /\ (sq.self /= 0 /\ ~IsResidue(sq.self)) =>
               sq.out = Err("NonQuadraticResidue")

(***************************************************************************)
(* impl Field for FiniteField<P, N>.  Vec indices are 0-based in the code  *)
(* and 1-based here; At(v, i) is v[i].  An index outside the vector, or a  *)
(* usize subtraction below zero, panics.                                   *)
(***************************************************************************)
At(v, i) == v[i + 1]
InRange(v, i) == 0 <= i /\ i < Len(v)
Put(v, i, x) == [v EXCEPT ![i + 1] = x]
Zeros(n) == [i \in 1..n |-> 0]

\* coords: Default::default() is the empty Vec
ff_zero == Elem(<<>>)
ff_one == Elem(Put(Zeros(N), 0, one))
ff_is_zero(x) == x = ff_zero

ff_add(x, y) ==
    IF x.panic \/ y.panic THEN Panic
    ELSE IF \E i \in 0..(N - 1) : ~InRange(x.coords, i) \/ ~InRange(y.coords, i)
         THEN Panic
         ELSE Elem([i \in 1..Len(x.coords) |->
                       IF i <= N THEN add(x.coords[i], y.coords[i]) ELSE x.coords[i]])

ff_neg(x) ==
    IF x.panic THEN Panic
    ELSE Elem([i \in 1..Len(x.coords) |->
                  IF i <= N THEN neg(x.coords[i]) ELSE x.coords[i]])

ff_zmul(x, k) ==
    IF x.panic THEN Panic
    ELSE Elem([i \in 1..Len(x.coords) |->
                  IF i <= N THEN zmul(x.coords[i], k) ELSE x.coords[i]])

\* Polynomial multiplication A * B: the inner loop over l at column k
RECURSIVE school_inner(_, _, _, _, _)
school_inner(a, b, q, k, l) ==
    IF l > k THEN [panic |-> FALSE, q |-> q]
    ELSE IF k - l < N /\ l < N
         THEN IF ~InRange(a, k - l) \/ ~InRange(b, l) \/ ~InRange(q, k)
              THEN [panic |-> TRUE, q |-> q]
              ELSE school_inner(a, b,
                       Put(q, k, add(At(q, k), mul(At(a, k - l), At(b, l)))), k, l + 1)
         ELSE school_inner(a, b, q, k, l + 1)

RECURSIVE school(_, _, _, _)
school(a, b, q, k) ==
    IF k >= 2 * N - 1 THEN [panic |-> FALSE, q |-> q]
    ELSE LET col == school_inner(a, b, q, k, 0)
         IN  IF col.panic THEN col ELSE school(a, b, col.q, k + 1)

\* Polynomial euclidian remainder: the inner loop over k at step l
RECURSIVE remainder_inner(_, _, _, _)
remainder_inner(i, q, l, k) ==
    IF k >= N THEN [panic |-> FALSE, q |-> q]
    ELSE LET r == 2 * N - 2 - l
             idx == k + r - N
         IN  IF ~InRange(q, idx) \/ ~InRange(q, r) \/ ~InRange(i, k)
             THEN [panic |-> TRUE, q |-> q]
             ELSE remainder_inner(i,
                      Put(q, idx, add(At(q, idx), mul(At(q, r), At(i, k)))), l, k + 1)

RECURSIVE remainder(_, _, _)
remainder(i, q, l) ==
    IF l >= 2 * N - 1 THEN [panic |-> FALSE, q |-> q]
    ELSE LET row == remainder_inner(i, q, l, 0)
         IN  IF row.panic THEN row ELSE remainder(i, row.q, l + 1)

ff_mul(x, y) ==
    IF x.panic \/ y.panic THEN Panic
    ELSE LET prod == school(x.coords, y.coords, Zeros(2 * N - 1), 0)
         IN  IF prod.panic THEN Panic
             ELSE LET rem == remainder(poly, prod.q, N)
                  IN  IF rem.panic THEN Panic
                      ELSE Elem(SubSeq(rem.q, 1, N))

ff_square(x) == ff_mul(x, x)

RECURSIVE ff_pow(_, _)
ff_pow(x, y) ==
    IF y = 0 THEN ff_one
    ELSE IF y = 1 THEN x
    ELSE LET n == TruncDiv(y, 2)
         IN  IF y % 2 = 1 THEN ff_mul(ff_pow(x, n), ff_pow(x, n + 1))
             ELSE ff_mul(ff_pow(x, n), ff_pow(x, n))

\* i64 `%` truncates: y % 2 == 1 only for positive odd y
RECURSIVE ff_zpow(_, _)
ff_zpow(x, y) ==
    IF y = 0 THEN ff_one
    ELSE IF y = 1 THEN x
    ELSE IF TruncRem(y, 2) = 1
         THEN LET n == TruncDiv(y - 1, 2) IN ff_mul(ff_zpow(x, n), ff_zpow(x, n + 1))
         ELSE LET n == TruncDiv(y, 2) IN ff_mul(ff_zpow(x, n), ff_zpow(x, n))

(***************************************************************************)
(* Extension-field session: a caller holding two elements applies the      *)
(* Field operations to them.  A panic ends the session.                    *)
(***************************************************************************)
\* (P, N, polynomial): X^N = sum polynomial[k] X^k, irreducible over Fp
FqFields == {<<3, 1, <<2>>>>, <<3, 2, <<2, 0>>>>, <<2, 3, <<1, 1, 0>>>>}

Vectors(n, S) == [1..n -> S]

QStore(i, out) == IF out.panic THEN freg ELSE [freg EXCEPT ![i] = out]
Running == ~qcall.out.panic

InitFq ==
    /\ \E f \in FqFields : P = f[1] /\ N = f[2] /\ poly = f[3]
    /\ freg \in [{1, 2} -> {Elem(v) : v \in Vectors(N, 0..(P - 1))}]
    /\ qcall = QCall("new", Elem(<<>>), Elem(<<>>), 0, Elem(<<>>))
    /\ FpIdle
    /\ SqIdle
    /\ EcIdle
    /\ PrIdle

FqApply(i, op, x, y, k, out) ==
    /\ Running
    /\ freg' = QStore(i, out)
    /\ qcall' = QCall(op, x, y, k, out)
    /\ UNCHANGED <<P, N, poly, fpVars, sq, ecVars, prVars>>

FqZero == \E i \in {1, 2} : FqApply(i, "zero", freg[i], freg[i], 0, ff_zero)
FqOne == \E i \in {1, 2} : FqApply(i, "one", freg[i], freg[i], 0, ff_one)
FqAdd ==
    \E i, j \in {1, 2} : FqApply(i, "add", freg[i], freg[j], 0, ff_add(freg[i], freg[j]))
FqNeg == \E i \in {1, 2} : FqApply(i, "neg", freg[i], freg[i], 0, ff_neg(freg[i]))
FqZmul ==
    \E i \in {1, 2}, k \in (-MaxK)..MaxK :
        FqApply(i, "zmul", freg[i], freg[i], k, ff_zmul(freg[i], k))
FqMul ==
    \E i, j \in {1, 2} : FqApply(i, "mul", freg[i], freg[j], 0, ff_mul(freg[i], freg[j]))
FqSquare ==
    \E i \in {1, 2} : FqApply(i, "square", freg[i], freg[i], 0, ff_square(freg[i]))
FqZpow ==
    \E i \in {1, 2}, k \in (-MaxK)..MaxK :
        FqApply(i, "zpow", freg[i], freg[i], k, ff_zpow(freg[i], k))
FqPow ==
    \E i \in {1, 2}, e \in 0..MaxExp :
        FqApply(i, "pow", freg[i], freg[i], e, ff_pow(freg[i], e))

NextFq ==
    \/ FqZero \/ FqOne \/ FqAdd \/ FqNeg \/ FqZmul
    \/ FqMul \/ FqSquare \/ FqZpow \/ FqPow

SpecFq == InitFq /\ [][NextFq]_vars

(***************************************************************************)
(* Claims about the extension field, checked under SpecFq.                 *)
(***************************************************************************)
\* C5: every value produced by zero, one, add, neg, zmul, mul, square, zpow
\* or pow has a coefficient vector of length exactly N, so that add accepts
\* it as an operand without an out-of-range index.
C5_LengthInvariant ==
    /\ \A i \in {1, 2} : Len(freg[i].coords) = N
    /\ ~qcall.out.panic => (qcall.op = "new" \/ Len(qcall.out.coords) = N)
    /\ qcall.op = "add" => ~qcall.out.panic

\* the multiplication the claim describes: schoolbook product, then, for l
\* from 2N-2 down to N, q[l] * i_k added into q[l-N+k] for k in [0, N)
RECURSIVE FoldRow(_, _, _, _)
FoldRow(i, q, l, k) ==
    IF k >= N THEN q
    ELSE FoldRow(i, Put(q, l - N + k, add(At(q, l - N + k), mul(At(q, l), At(i, k)))),
                 l, k + 1)

RECURSIVE Fold(_, _, _)
Fold(i, q, l) == IF l < N THEN q ELSE Fold(i, FoldRow(i, q, l, 0), l - 1)

ProductModI(a, b) ==
    SubSeq(Fold(poly, school(a, b, Zeros(2 * N - 1), 0).q, 2 * N - 2), 1, N)

\* C6: for N >= 2 and operands of length N, mul completes without an index
\* fault and returns (a * b) mod I.
C6_MulReduces ==
    (/\ qcall.op = "mul" /\ N >= 2
     /\ Len(qcall.x.coords) = N /\ Len(qcall.y.coords) = N) =>
        /\ ~qcall.out.panic
        /\ qcall.out.coords = ProductModI(qcall.x.coords, qcall.y.coords)

(***************************************************************************)
(* impl ECPoint<F> over F = PrimeField<P>.  The curve operations use the   *)
(* Result of a field div / invert as a field element; here a failed        *)
(* division ends the call with a panic (the unwrap of an Err).             *)
(***************************************************************************)
a1 == curve[1]
a2 == curve[2]
a3 == curve[3]
a4 == curve[4]
a6 == curve[6]

\* what an operation that returns a point computed
PointRun(pt, divs) == [panic |-> FALSE, pt |-> pt, divs |-> divs]
PointPanic(divs) == [panic |-> TRUE, pt |-> Infinity, divs |-> divs]

\* a tangent slope whose leading term is 3 a1 instead of 3 x^2
add_tangent_a1(xp, yp) ==
    [lnum |-> add(add(add(a4, zmul(a1, 3)), zmul(mul(a2, xp), 2)), neg(mul(a1, yp))),
     nnum |-> add(add(add(neg(mul(mul(xp, xp), xp)), mul(a4, xp)), zmul(a6, 2)),
                  neg(mul(a3, yp))),
     den |-> add(add(a3, zmul(yp, 2)), mul(a1, xp))]

\* add's two branches for lambda and nu, as [num of lambda, num of nu, denominator]
add_tangent(xp, yp) ==
    [lnum |-> add(add(add(a4, zmul(square(xp), 3)), zmul(mul(a2, xp), 2)),
                  neg(mul(a1, yp))),
     nnum |-> add(add(add(neg(mul(square(xp), xp)), mul(a4, xp)), zmul(a6, 2)),
                  neg(mul(a3, yp))),
     den |-> add(add(a3, zmul(yp, 2)), mul(a1, xp))]

add_chord(xp, yp, xq, yq) ==
    [lnum |-> add(yq, neg(yp)),
     nnum |-> add(mul(yp, xq), neg(mul(yq, xp))),
     den |-> add(xq, neg(xp))]

ec_add_run(p, q) ==
    IF p.inf THEN PointRun(q, 0)
    ELSE IF q.inf THEN PointRun(p, 0)
    ELSE IF p.x = q.x /\ add(add(add(p.y, q.y), mul(a1, q.x)), a3) = zero
         THEN PointRun(Infinity, 0)
         ELSE LET f == IF p.x = q.x THEN add_tangent(p.x, p.y)
                       ELSE add_chord(p.x, p.y, q.x, q.y)
                  lambda == div(f.lnum, f.den)
                  nu == div(f.nnum, f.den)
              IN  IF ~lambda.ok THEN PointPanic(1)
                  ELSE LET x == add(add(add(neg(a2), neg(add(p.x, q.x))),
                                        square(lambda.val)), mul(a1, lambda.val))
                           y == neg(add(add(a3, nu.val),
                                        mul(x, add(lambda.val, a1))))
                       IN  PointRun(Affine(x, y), 2)

ec_add(p, q) == ec_add_run(p, q).pt

ec_double_run(p) ==
    IF p.inf THEN PointRun(p, 0)
    ELSE LET inv == invert(add(add(zmul(p.y, 2), mul(p.x, a1)), a3))
         IN  IF ~inv.ok THEN PointPanic(1)
             ELSE LET lambda == mul(add(add(add(zmul(a1, 3), zmul(mul(p.x, a2), 2)),
                                            neg(mul(p.y, a1))), a4), inv.val)
                      res_x == add(add(add(square(lambda), mul(a1, lambda)), neg(a2)),
                                   neg(zmul(p.x, 2)))
                      res_y == add(add(add(add(neg(mul(res_x, a1)), neg(a3)),
                                           mul(res_x, lambda)), mul(p.x, lambda)),
                                   neg(p.y))
                  IN  PointRun(Affine(res_x, res_y), 1)

ec_double(p) == ec_double_run(p).pt

\* an inverse that negates y and forgets a1 x + a3
ec_invert_short(p) ==
    IF p.inf THEN [ok |-> FALSE, pt |-> Infinity, err |-> "P must not be zero"]
    ELSE [ok |-> TRUE, pt |-> Affine(p.x, -(p.y)), err |-> "none"]

\* Result<Self, &'static str>
ec_invert(p) ==
    IF p.inf THEN [ok |-> FALSE, pt |-> Infinity, err |-> "P must not be zero"]
    ELSE [ok |-> TRUE, pt |-> Affine(p.x, neg(add(add(a3, mul(a1, p.x)), p.y))),
          err |-> "none"]

\* the slope cases of line: -slope * (xR - xP) + (yR - yP), in the order the
\* code adds the two terms
line_chord(p, q, r) ==
    LET num == add(q.y, neg(p.x))
        denom == add(q.x, neg(p.x))
        slope == div(num, denom)
    IN  IF ~slope.ok THEN Err("panic")
        ELSE LET xdiff == neg(mul(add(r.x, neg(p.x)), slope.val))
                 ydiff == add(r.y, neg(p.y))
             IN  Ok(add(xdiff, ydiff))

line_tangent(p, r) ==
    LET num == add(add(add(zmul(square(p.x), 3), neg(mul(p.y, a1))), a4),
                   zmul(mul(p.x, a2), 2))
        denom == add(add(zmul(p.y, 2), a3), mul(p.x, a1))
    IN  IF denom = zero THEN Ok(add(r.x, neg(p.x)))
        ELSE LET slope == div(num, denom)
                 xdiff == neg(mul(add(r.x, neg(p.x)), slope.val))
                 ydiff == add(r.y, neg(p.y))
             IN  Ok(add(ydiff, xdiff))

\* a line that does not look at R before using it
line_unchecked(p, q, r) ==
    IF p.inf /\ q.inf THEN Ok(one)
    ELSE IF p.inf THEN Ok(add(r.x, neg(q.x)))
    ELSE IF q.inf THEN Ok(add(r.x, neg(p.x)))
    ELSE IF p /= q
         THEN IF p.x = q.x THEN Ok(add(r.x, neg(p.x)))
              ELSE line_chord(p, q, r)
         ELSE line_tangent(p, r)

line(p, q, r) ==
    IF r.inf THEN Err("R cannot be the point at infinity")
    ELSE IF p.inf /\ q.inf THEN Ok(one)
    ELSE IF p.inf THEN Ok(add(r.x, neg(q.x)))
    ELSE IF q.inf THEN Ok(add(r.x, neg(p.x)))
    ELSE IF p /= q
         THEN IF p.x = q.x THEN Ok(add(r.x, neg(p.x)))
              ELSE line_chord(p, q, r)
         ELSE line_tangent(p, r)

\* the field divisions line performs
line_divs(p, q, r) ==
    IF r.inf \/ p.inf \/ q.inf THEN 0
    ELSE IF p /= q THEN (IF p.x = q.x THEN 0 ELSE 1)
    ELSE IF add(add(zmul(p.y, 2), a3), mul(p.x, a1)) = zero THEN 0 ELSE 1

(***************************************************************************)
(* Curve session: a caller starts from a point of the curve and applies    *)
(* the point operations to the point it holds.  A panic ends the session.  *)
(***************************************************************************)
\* (P, [a1, a2, a3, a4, a5, a6]); the first is scenario S2's curve
S2Curve == <<0, 0, 0, 1, 0, 6>>
Curves == {<<11, S2Curve>>, <<7, <<1, 2, 1, 1, 0, 1>>>>}

\* y^2 + a1 x y + a3 y = x^3 + a2 x^2 + a4 x + a6 in Z/P
OnCurve(pt) ==
    pt.inf \/ (pt.y * pt.y + a1 * pt.x * pt.y + a3 * pt.y
               - (pt.x * pt.x * pt.x + a2 * pt.x * pt.x + a4 * pt.x + a6)) % P = 0

CurvePoints ==
    {pt \in {Affine(x, y) : x \in 0..(P - 1), y \in 0..(P - 1)} : OnCurve(pt)}

EcRunning == ~ecall.panic

InitEc ==
    /\ \E c \in Curves : P = c[1] /\ curve = c[2]
    /\ base \in CurvePoints
    /\ acc = base
    /\ summands = 1
    /\ ecall = ECall("new", Infinity, Infinity, Infinity, Infinity, Ok(0), 0, FALSE)
    /\ FpIdle
    /\ SqIdle
    /\ FqIdle
    /\ PrIdle

\* acc = acc.add(&q), or q.add(&acc) when flipped
EcAddStep(p, q, run, k) ==
    /\ EcRunning
    /\ acc' = IF run.panic THEN acc ELSE run.pt
    /\ summands' = IF run.panic THEN summands ELSE k
    /\ ecall' = ECall("add", p, q, Infinity, run.pt, Ok(0), run.divs, run.panic)
    /\ UNCHANGED <<P, curve, base, fpVars, sq, fqVars, prVars>>

EcAddBase ==
    /\ summands < MaxSummands
    /\ EcAddStep(acc, base, ec_add_run(acc, base),
                 IF summands > 0 THEN summands + 1 ELSE 0)

EcAddSelf == EcAddStep(acc, acc, ec_add_run(acc, acc), 0)

EcAddInfinity == EcAddStep(acc, Infinity, ec_add_run(acc, Infinity), summands)

EcInfinityAdd == EcAddStep(Infinity, acc, ec_add_run(Infinity, acc), summands)

EcAddInverse ==
    /\ ec_invert(acc).ok
    /\ EcAddStep(acc, ec_invert(acc).pt, ec_add_run(acc, ec_invert(acc).pt), 0)

EcInverseAdd ==
    /\ ec_invert(acc).ok
    /\ EcAddStep(ec_invert(acc).pt, acc, ec_add_run(ec_invert(acc).pt, acc), 0)

EcDouble ==
    /\ EcRunning
    /\ LET run == ec_double_run(acc)
       IN  /\ acc' = IF run.panic THEN acc ELSE run.pt
           /\ ecall' = ECall("double", acc, Infinity, Infinity, run.pt, Ok(0),
                             run.divs, run.panic)
    /\ summands' = 0
    /\ UNCHANGED <<P, curve, base, fpVars, sq, fqVars, prVars>>

EcInvert ==
    /\ EcRunning
    /\ LET inv == ec_invert(acc)
       IN  /\ acc' = IF inv.ok THEN inv.pt ELSE acc
           /\ ecall' = ECall("invert", acc, Infinity, Infinity, inv.pt,
                             IF inv.ok THEN Ok(0) ELSE Err(inv.err), 0, FALSE)
    /\ summands' = 0
    /\ UNCHANGED <<P, curve, base, fpVars, sq, fqVars, prVars>>

\* acc.line(&base, &r)
EcLine ==
    /\ EcRunning
    /\ \E r \in CurvePoints \cup {acc, base, Infinity} :
           LET res == line(acc, base, r)
           IN  ecall' = ECall("line", acc, base, r, Infinity, res,
                              line_divs(acc, base, r), res.err = "panic")
    /\ UNCHANGED <<P, curve, base, acc, summands, fpVars, sq, fqVars, prVars>>

NextEc ==
    \/ EcAddBase \/ EcAddSelf \/ EcAddInfinity \/ EcInfinityAdd
    \/ EcAddInverse \/ EcInverseAdd \/ EcDouble \/ EcInvert

SpecEc == InitEc /\ [][NextEc]_vars

\* the same session evaluating lines through the points base, 2 base, ...
NextLine == EcAddBase \/ EcLine

SpecLine == InitEc /\ [][NextLine]_vars

(***************************************************************************)
(* Claims about the group law, checked under SpecEc.                       *)
(***************************************************************************)
Congruent(u, v) == (u - v) % P = 0
CanonicalPoint(pt) == pt.inf \/ (Canonical(pt.x) /\ Canonical(pt.y))

\* C7: for every affine point of the curve whose tangent denominator
\* 2y + a1 x + a3 is non-zero, double returns the same point as add(P, P).
C7_DoubleIsAdd ==
    (/\ ecall.op = "double" /\ ~ecall.p.inf
     /\ OnCurve(ecall.p) /\ CanonicalPoint(ecall.p)
     /\ ~Congruent(2 * ecall.p.y + a1 * ecall.p.x + a3, 0)) =>
        /\ ~ecall.panic
        /\ ecall.pt = ec_add(ecall.p, ecall.p)

\* C8: add(P, Infinity) = P and add(Infinity, P) = P; invert(P) keeps x and
\* returns the residue -y - a1 x - a3 as y; add(P, invert(P)) and
\* add(invert(P), P) are Infinity, reached without a field division.
C8_IdentityAndInverse ==
    /\ (ecall.op = "add" /\ ecall.q.inf) => (~ecall.panic /\ ecall.pt = ecall.p)
    /\ (ecall.op = "add" /\ ecall.p.inf) => (~ecall.panic /\ ecall.pt = ecall.q)
    /\ (ecall.op = "invert" /\ ~ecall.p.inf) =>
           /\ ecall.res.ok
           /\ ecall.pt.x = ecall.p.x
           /\ Congruent(ecall.pt.y, -(ecall.p.y) - a1 * ecall.p.x - a3)
    /\ (/\ ecall.op = "add" /\ ~ecall.p.inf /\ ~ecall.q.inf
        /\ (ecall.q = ec_invert(ecall.p).pt \/ ecall.p = ec_invert(ecall.q).pt)) =>
           (~ecall.panic /\ ecall.pt = Infinity /\ ecall.divs = 0)

\* C8's case: a point of a curve with a1, a3 /= 0 added to its inverse
C8_Witness ==
    /\ ecall.op = "add" /\ ~ecall.p.inf /\ a1 /= 0 /\ a3 /= 0
    /\ ecall.q = ec_invert(ecall.p).pt /\ ecall.q /= ecall.p
    /\ ecall.pt = Infinity

OnS2 == P = 11 /\ curve = S2Curve /\ base = Affine(2, 7) /\ summands > 0

\* C9 as stated: on S2's curve (2,7) + (2,7) = (5,2), and the sum of k
\* summands (2,7) is Infinity for k = 5 and for no smaller k.
C9_OrderFive ==
    OnS2 =>
        /\ summands = 2 => acc = Affine(5, 2)
        /\ summands < 5 => ~acc.inf
        /\ summands = 5 => acc.inf

\* C9 amended: on S2's curve (2,7) + (2,7) = (5,2), five summands give the
\* affine point (3,6), and the sum of k summands (2,7) is Infinity for
\* k = 13 and for no smaller k.
C9_OrderThirteen ==
    OnS2 =>
        /\ summands = 2 => acc = Affine(5, 2)
        /\ summands = 5 => acc = Affine(3, 6)
        /\ summands < 13 => ~acc.inf
        /\ summands = 13 => acc.inf

\* C9's case: the thirteenth summand has been added
C9_Witness == OnS2 /\ summands = 13 /\ ecall.op = "add" /\ ecall.q = base /\ acc.inf

(***************************************************************************)
(* Claims about the line function, checked under SpecLine.                 *)
(***************************************************************************)
InvMod(d) == CHOOSE w \in 0..(P - 1) : (w * d) % P = 1

\* (yR - yP) - s (xR - xP) with s = (yQ - yP) / (xQ - xP), as a residue
ChordValue(p, q, r) ==
    ((r.y - p.y) - (q.y - p.y) * InvMod(q.x - p.x) * (r.x - p.x)) % P

\* C10: for affine P, Q, R with xP /= xQ, line(P, Q, R) is
\* (yR - yP) - s (xR - xP) with s = (yQ - yP) / (xQ - xP); so it is zero
\* exactly when R is on the line through P and Q, as at R = P and R = Q.
C10_ChordLine ==
    (/\ ecall.op = "line" /\ ~ecall.p.inf /\ ~ecall.q.inf /\ ~ecall.r.inf
     /\ CanonicalPoint(ecall.p) /\ CanonicalPoint(ecall.q) /\ CanonicalPoint(ecall.r)
     /\ ecall.p.x /= ecall.q.x) =>
        /\ ecall.res.ok
        /\ Congruent(ecall.res.val, ChordValue(ecall.p, ecall.q, ecall.r))
        /\ (ecall.res.val = 0) <=> (ChordValue(ecall.p, ecall.q, ecall.r) = 0)
        /\ ecall.r = ecall.p => ecall.res.val = 0
        /\ ecall.r = ecall.q => ecall.res.val = 0

(***************************************************************************)
(* src/src/pairings.rs over F = PrimeField<P>.  It names the curve         *)
(* operations curve.double(V), curve.add(V, P), curve.invert(S) and        *)
(* curve.line(A, B, Q); they are ECPoint's double, add, invert and line.   *)
(* A `?` hands the callee's error to the caller; a field Result used as a  *)
(* field element hands its Err on in the same way.                         *)
(***************************************************************************)
\* n is drawn from -MaxN..MaxN
MaxN == 13

\* IntegerExt for Integer
is_positive(n) == n > 0
is_odd(n) == n % 2 = 1
abs(n) == IF n < 0 THEN -n ELSE n

\* the bits of a non-negative Integer, least significant first
RECURSIVE to_bits(_)
to_bits(n) == IF n = 0 THEN <<>> ELSE <<n % 2 = 1>> \o to_bits(n \div 2)

\* what miller computed: its Result and the steps it executed
MRun(res, doubles, adds, lines) ==
    [res |-> res, doubles |-> doubles, adds |-> adds, lines |-> lines]

\* the body shared by the double step and the add step, after S was computed
\* (run): ell = line(V, other, Q)?, vee = line(S, invert(S)?, Q)?, and
\* t0 * (ell / vee); t0 is t.square() in the double step and t in the add step
miller_step(run, ell, q, t0) ==
    IF run.panic THEN [res |-> Err("panic"), pt |-> Infinity, lines |-> 0]
    ELSE IF ~ell.ok THEN [res |-> Err(ell.err), pt |-> run.pt, lines |-> 1]
    ELSE LET inv == ec_invert(run.pt)
         IN  IF ~inv.ok THEN [res |-> Err(inv.err), pt |-> run.pt, lines |-> 1]
             ELSE LET vee == line(run.pt, inv.pt, q)
                  IN  IF ~vee.ok
                      THEN [res |-> Err(vee.err), pt |-> run.pt, lines |-> 2]
                      ELSE LET d == div(ell.val, vee.val)
                           IN  [res |-> IF d.ok THEN Ok(mul(t0, d.val))
                                        ELSE Err(d.err),
                                pt |-> run.pt, lines |-> 2]

\* the loop's locals after a pass: t (or the error that ended miller), V,
\* and the steps executed so far
MState(res, v, doubles, adds, lines) ==
    [res |-> res, v |-> v, doubles |-> doubles, adds |-> adds, lines |-> lines]

\* if !sign { vee = line(V, invert(V)?, Q)?; t = t.mul(&vee).invert() }  Ok(t)
miller_sign(q, st, inv) ==
    IF ~inv.ok THEN MRun(Err(inv.err), st.doubles, st.adds, st.lines)
    ELSE MRun(IF line(st.v, inv.pt, q).ok
              THEN invert(mul(st.res.val, line(st.v, inv.pt, q).val))
              ELSE Err(line(st.v, inv.pt, q).err),
              st.doubles, st.adds, st.lines + 1)

miller_finish(q, sign, st) ==
    IF sign THEN MRun(st.res, st.doubles, st.adds, st.lines)
    ELSE miller_sign(q, st, ec_invert(st.v))

\* the double step's outcome joined to the locals
after_double(st, dbl) ==
    MState(dbl.res, dbl.pt, st.doubles + 1, st.adds, st.lines + dbl.lines)

\* if nbits[i] { the add step }
after_add(st, ad) == MState(ad.res, ad.pt, st.doubles, st.adds + 1, st.lines + ad.lines)

miller_add(p, q, bit, st) ==
    IF ~st.res.ok \/ ~bit THEN st
    ELSE after_add(st, miller_step(ec_add_run(st.v, p), line(st.v, p, q), q,
                                   st.res.val))

\* one pass of the loop body
miller_pass(p, q, bit, st) ==
    miller_add(p, q, bit,
               after_double(st, miller_step(ec_double_run(st.v), line(st.v, st.v, q),
                                            q, square(st.res.val))))

\* the pass at index i (nbits[i] is bits[i + 1]), the passes below it, then the
\* sign correction; an error ends miller where it arises
RECURSIVE miller_loop(_, _, _, _, _, _)
miller_next(p, q, sign, bits, i, st) ==
    IF ~st.res.ok THEN MRun(st.res, st.doubles, st.adds, st.lines)
    ELSE IF i = 0 THEN miller_finish(q, sign, st)
    ELSE miller_loop(p, q, sign, bits, i - 1, st)

miller_loop(p, q, sign, bits, i, st) ==
    miller_next(p, q, sign, bits, i, miller_pass(p, q, bits[i + 1], st))

\* a loop whose index starts at the top bit instead of one below it
miller_run_top(p, q, n) ==
    IF p.inf THEN MRun(Err("P must not be zero"), 0, 0, 0)
    ELSE IF q.inf THEN MRun(Err("Q must not be zero"), 0, 0, 0)
    ELSE IF is_zero(n) THEN MRun(Ok(one), 0, 0, 0)
    ELSE LET nbits == to_bits(abs(n))
         IN  miller_loop(p, q, is_positive(n), nbits, Len(nbits) - 1,
                         MState(Ok(one), p, 0, 0, 0))

\* miller(curve, pt_p, pt_q, n)
miller_run(p, q, n) ==
    IF p.inf THEN MRun(Err("P must not be zero"), 0, 0, 0)
    ELSE IF q.inf THEN MRun(Err("Q must not be zero"), 0, 0, 0)
    ELSE IF is_zero(n) THEN MRun(Ok(one), 0, 0, 0)
    ELSE LET nbits == to_bits(abs(n))
             i == Len(nbits) - 1
         IN  IF i /= 0
             THEN miller_loop(p, q, is_positive(n), nbits, i - 1,
                              MState(Ok(one), p, 0, 0, 0))
             ELSE miller_finish(q, is_positive(n), MState(Ok(one), p, 0, 0, 0))

miller(p, q, n) == miller_run(p, q, n).res

\* what weil_pairing computed: its Result and the miller calls it made
WRun(res, millers) == [res |-> res, millers |-> millers]

\* a ratio that is never negated
weil_ratio_plain(n, ratio) == WRun(ratio, 2)

\* if order.is_odd() { Ok(ratio.neg()) } else { Ok(ratio) }
weil_ratio(n, ratio) ==
    IF ~ratio.ok THEN WRun(ratio, 2)
    ELSE IF is_odd(n) THEN WRun(Ok(neg(ratio.val)), 2)
    ELSE WRun(ratio, 2)

\* let ratio = f_pq.div(&f_qp)
weil_second(n, f_pq, f_qp) ==
    IF ~f_qp.ok THEN WRun(f_qp, 2) ELSE weil_ratio(n, div(f_pq.val, f_qp.val))

\* let f_qp = miller(curve, &pt_q, &pt_p, &order)?
weil_first(p, q, n, f_pq) ==
    IF ~f_pq.ok THEN WRun(f_pq, 1) ELSE weil_second(n, f_pq, miller(q, p, n))

\* weil_pairing(curve, pt_p, pt_q, order)
weil_run(p, q, n) ==
    IF p = q \/ p = Infinity \/ q = Infinity THEN WRun(Ok(one), 0)
    ELSE weil_first(p, q, n, miller(p, q, n))

(***************************************************************************)
(* Pairing session: a caller holds two points, each a point of the curve   *)
(* or the point at infinity, and makes one call: miller, weil_pairing, or  *)
(* one of the point and field operations they are built from.              *)
(***************************************************************************)
\* y^2 = x^3 + 2 over F7: nine points, all of its 3-torsion
TorsionCurve == <<0, 0, 0, 0, 0, 2>>
PairCurves == Curves \cup {<<7, TorsionCurve>>}

InitPair ==
    /\ \E c \in PairCurves : P = c[1] /\ curve = c[2]
    /\ pp \in CurvePoints \cup {Infinity}
    /\ pq \in CurvePoints \cup {Infinity}
    /\ pcall = PCall("new", 0, 0, 0, Ok(0), 0, 0, 0, 0)
    /\ TateIdle
    /\ RpIdle
    /\ base = Infinity
    /\ acc = Infinity
    /\ summands = 0
    /\ ecall = ECall("new", Infinity, Infinity, Infinity, Infinity, Ok(0), 0, FALSE)
    /\ FpIdle
    /\ SqIdle
    /\ FqIdle

\* miller(&curve, &pp, &pq, &n)
PairMiller ==
    /\ pcall.op = "new"
    /\ \E n \in (-MaxN)..MaxN :
           LET run == miller_run(pp, pq, n)
           IN  pcall' = PCall("miller", n, 0, 0, run.res, run.doubles, run.adds,
                              run.lines, 1)
    /\ UNCHANGED <<P, fpVars, sq, fqVars, ecVars, pp, pq, tt, rp>>

\* weil_pairing(&curve, pp, pq, n)
PairWeil ==
    /\ pcall.op = "new"
    /\ \E n \in (-MaxN)..MaxN :
           LET run == weil_run(pp, pq, n)
           IN  pcall' = PCall("weil", n, 0, 0, run.res, 0, 0, 0, run.millers)
    /\ UNCHANGED <<P, fpVars, sq, fqVars, ecVars, pp, pq, tt, rp>>

\* pp.line(&pq, &INFPOINT)
PairLine ==
    /\ pcall.op = "new"
    /\ pcall' = PCall("line", 0, 0, 0, line(pp, pq, Infinity), 0, 0, 1, 0)
    /\ UNCHANGED <<P, fpVars, sq, fqVars, ecVars, pp, pq, tt, rp>>

\* pt.invert() for pt one of the caller's points
PairInvert ==
    /\ pcall.op = "new"
    /\ \E pt \in {pp, pq} :
           LET inv == ec_invert(pt)
           IN  pcall' = PCall("invert", 0, pt, inv.pt,
                              IF inv.ok THEN Ok(0) ELSE Err(inv.err), 0, 0, 0, 0)
    /\ UNCHANGED <<P, fpVars, sq, fqVars, ecVars, pp, pq, tt, rp>>

\* x.div(&y) and y.invert() for field elements x, y
PairDiv ==
    /\ pcall.op = "new"
    /\ \E x, y \in 0..(P - 1) :
           \/ pcall' = PCall("div", 0, x, y, div(x, y), 0, 0, 0, 0)
           \/ pcall' = PCall("finv", 0, 0, y, invert(y), 0, 0, 0, 0)
    /\ UNCHANGED <<P, fpVars, sq, fqVars, ecVars, pp, pq, tt, rp>>

NextPair == PairMiller \/ PairWeil \/ PairLine \/ PairInvert \/ PairDiv

SpecPair == InitPair /\ [][NextPair]_vars

(***************************************************************************)
(* Claims about miller and weil_pairing, checked under SpecPair.           *)
(***************************************************************************)
\* the messages of the errors that report an input outside the domain:
\* ErrorKind::InvalidInput's in miller, the &'static str of invert and line
InvalidInput ==
    {"P must not be zero", "Q must not be zero", "R cannot be the point at infinity"}

\* C11: miller(Infinity, Q, n) and miller(P, Infinity, n) return InvalidInput
\* for every n, n = 0 included, before anything is computed; line(P, Q,
\* Infinity) returns an invalid-input error for every P and Q, Infinity
\* included; the inverse of the point at infinity returns an invalid-input
\* error; field div(a, 0) and invert(0) return NoInverse.
C11_InvalidInputs ==
    /\ (pcall.op = "miller" /\ (pp.inf \/ pq.inf)) =>
           /\ ~pcall.res.ok
           /\ pcall.res.err = (IF pp.inf THEN "P must not be zero"
                               ELSE "Q must not be zero")
           /\ pcall.res.err \in InvalidInput
           /\ pcall.doubles = 0 /\ pcall.adds = 0 /\ pcall.lines = 0
    /\ pcall.op = "line" => (~pcall.res.ok /\ pcall.res.err \in InvalidInput)
    /\ (pcall.op = "invert" /\ pcall.x.inf) =>
           (~pcall.res.ok /\ pcall.res.err \in InvalidInput)
    /\ (pcall.op \in {"div", "finv"} /\ pcall.y = 0) => pcall.res = Err("NoInverse")

\* C11's case: miller was called with n = 0 and the point at infinity as P
C11_Witness ==
    /\ pcall.op = "miller" /\ pp.inf /\ ~pq.inf /\ pcall.n = 0
    /\ pcall.res = Err("P must not be zero")

\* C12: for affine P and Q, miller(P, Q, 0) and miller(P, Q, 1) return one
\* and execute no double step, no add step and no line evaluation; with the
\* single bit of n = 1 the loop index starts at 0 and is never decremented.
C12_TrivialOrders ==
    (pcall.op = "miller" /\ ~pp.inf /\ ~pq.inf /\ pcall.n \in {0, 1}) =>
        /\ pcall.res = Ok(one)
        /\ pcall.doubles = 0 /\ pcall.adds = 0 /\ pcall.lines = 0
        /\ pcall.n = 1 => Len(to_bits(abs(pcall.n))) - 1 = 0

\* C12's case: miller was called with n = 1 on two affine points
C12_Witness ==
    /\ pcall.op = "miller" /\ ~pp.inf /\ ~pq.inf /\ pp /= pq
    /\ pcall.n = 1 /\ pcall.res = Ok(one)

\* the affine points of y^2 = x^3 + 2 over F7 all have order 3, and -P is
\* the other point with P's x: two of them with different x are independent
IndependentOfOrder3(p, q) ==
    /\ P = 7 /\ curve = TorsionCurve
    /\ ~p.inf /\ ~q.inf /\ p.x /= q.x

\* C13: for independent points P and Q of order n, weil_pairing(P, Q, n)
\* returns a field element, not an error, and it is a primitive n-th root
\* of unity (here n = 3: its cube is one and it is not one).
C13_WeilRootOfUnity ==
    (pcall.op = "weil" /\ pcall.n = 3 /\ IndependentOfOrder3(pp, pq)) =>
        /\ pcall.res.ok
        /\ Congruent(pcall.res.val * pcall.res.val * pcall.res.val, 1)
        /\ ~Congruent(pcall.res.val, 1)

WeilDegenerate == pp = pq \/ pp.inf \/ pq.inf

\* miller(P, Q, n) / miller(Q, P, n) for the call in pcall
WeilRatio == div(miller(pp, pq, pcall.n).val, miller(pq, pp, pcall.n).val)

WeilRatioDefined ==
    /\ ~WeilDegenerate
    /\ miller(pp, pq, pcall.n).ok
    /\ miller(pq, pp, pcall.n).ok
    /\ WeilRatio.ok

\* C14: weil_pairing returns one without calling miller when P = Q,
\* P = Infinity or Q = Infinity; otherwise it is the ratio
\* miller(P, Q, n) / miller(Q, P, n), negated exactly when n is odd; so when
\* weil_pairing(P, Q, n) and weil_pairing(Q, P, n) both return values, their
\* product is one.
C14_WeilRelations ==
    pcall.op = "weil" =>
        /\ WeilDegenerate => (pcall.res = Ok(one) /\ pcall.millers = 0)
        /\ WeilRatioDefined =>
               /\ pcall.res.ok
               /\ pcall.millers = 2
               /\ Congruent(pcall.res.val,
                            IF pcall.n % 2 = 1 THEN -WeilRatio.val ELSE WeilRatio.val)
        /\ (pcall.res.ok /\ weil_run(pq, pp, pcall.n).res.ok) =>
               mul(pcall.res.val, weil_run(pq, pp, pcall.n).res.val) = one

\* C14's case: both orders of two distinct affine points returned a value for
\* an odd n that runs the loop, and the value is not its own negation
C14_Witness ==
    /\ pcall.op = "weil" /\ WeilRatioDefined /\ pcall.n = 3
    /\ pcall.res.ok /\ ~Congruent(pcall.res.val, 0)
    /\ weil_run(pq, pp, pcall.n).res.ok

(***************************************************************************)
(* EllipticCurve::random_point: draw x, solve y^2 + b y + c = 0 through    *)
(* PrimeField::sqrt, whose steps are the Sqrt actions above.               *)
(***************************************************************************)
\* let b = rand_x.mul(a1).add(a3)
rp_b(x) == add(mul(x, a1), a3)

\* let c = (rand_x^3 + rand_x^2 a2 + rand_x a4 + a6).neg()
rp_c(x) == neg(add(add(add(zpow(x, 3), mul(square(x), a2)), mul(x, a4)), a6))

\* let half = c.one().zmul(&2).invert()
rp_half == invert(zmul(one, 2))

\* let delta = b.square().add(c.zmul(&4).neg())
rp_delta(x) == add(square(rp_b(x)), neg(zmul(rp_c(x), 4)))

\* let rand_y = half.mul(&b.neg().add(sq))
rp_y(x, root) == mul(rp_half.val, add(neg(rp_b(x)), root))

\* the curves above and y^2 = x^3 + x + 1 over F13, where 13 - 1 = 4 * 3
InitRp ==
    /\ \E c \in PairCurves \cup {<<13, <<0, 0, 0, 1, 0, 1>>>>} :
           P = c[1] /\ curve = c[2]
    /\ rp = RpLocals("draw", 0, 0, 0, Ok(0), 0, Infinity)
    /\ base = Infinity
    /\ acc = Infinity
    /\ summands = 0
    /\ ecall = ECall("new", Infinity, Infinity, Infinity, Infinity, Ok(0), 0, FALSE)
    /\ FpIdle
    /\ SqIdle
    /\ FqIdle
    /\ PairIdle
    /\ TateIdle

\* let rand_x = F::random_element(); b, c, half, delta; then delta.sqrt() starts
RpDraw ==
    /\ rp.pc = "draw"
    /\ \E x \in random_element :
           /\ rp' = RpLocals(IF rp_half.ok THEN "sqrt" ELSE "panicked", x, rp_b(x),
                             rp_c(x), rp_half, rp_delta(x), Infinity)
           /\ sq' = IF rp_half.ok
                    THEN SqLocals("euler", rp_delta(x), order - 1, 0, 0, 0, 0, 0, 0, 0,
                                  Ok(0))
                    ELSE sq
    /\ UNCHANGED <<P, fpVars, fqVars, ecVars, pp, pq, pcall, tt>>

\* match &delta.sqrt() { Ok(x) => x, Err(_) => todo!() }, then rand_y and the
\* RATIONALPOINT that is returned
RpFinish ==
    /\ rp.pc = "sqrt"
    /\ sq.pc = "done"
    /\ rp' = IF sq.out.ok
             THEN [rp EXCEPT !.pc = "returned",
                             !.pt = Affine(rp.x, rp_y(rp.x, sq.out.val))]
             ELSE [rp EXCEPT !.pc = "panicked"]
    /\ UNCHANGED sq
    /\ UNCHANGED <<P, fpVars, fqVars, ecVars, pp, pq, pcall, tt>>

NextRp ==
    \/ RpDraw
    \/ SqrtEuler \/ SqrtHalve \/ SqrtSample \/ SqrtSetup \/ SqrtLoop \/ SqrtReturn
    \/ RpFinish

SpecRp == InitRp /\ [][NextRp]_vars

(***************************************************************************)
(* Claims about random_point, checked under SpecRp.                        *)
(***************************************************************************)
\* C16: random_point does not fault, for every curve and every x it draws:
\* when delta = b^2 - 4c has no square root it draws x again; and the point
\* (x, y) it returns, y = (-b + sqrt(delta)) / 2, satisfies the curve
\* equation.
C16_RandomPointOnCurve ==
    /\ rp.pc /= "panicked"
    /\ rp.pc = "returned" => (~rp.pt.inf /\ OnCurve(rp.pt))

(***************************************************************************)
(* tate_pairing, one action per miller evaluation, per draw of R and per   *)
(* return.  random_point enters through what it can return: its sqrt       *)
(* yields zero when delta passes the Euler test and fails otherwise.       *)
(***************************************************************************)
\* recursive tate_pairing calls that are followed below the first
MaxDepth == 2
\* order is drawn from 1..MaxOrder
MaxOrder == 3

\* Integer power q^k
RECURSIVE large_pow(_, _)
large_pow(q, k) == IF k = 0 THEN 1 ELSE q * large_pow(q, k - 1)

\* sqrt's test self.zpow(q / 2) == one, for random_point's delta
rp_euler(x) == zpow(rp_delta(x), TruncDiv(order - 1, 2)) = one

\* the points random_point returns; a draw that fails the test makes it panic
random_point == {Affine(x, rp_y(x, zero)) : x \in {w \in random_element : rp_euler(w)}}

\* let e = q.large_pow(embedding_degree).sub(one).div(order)
tate_exponent(n, k) == TruncDiv(large_pow(order, k) - 1, n)

InitTate ==
    /\ \E c \in PairCurves : P = c[1] /\ curve = c[2]
    /\ \E p \in CurvePoints \cup {Infinity}, q \in CurvePoints, n \in 1..MaxOrder :
           tt = Tate("call", p, n, 1, q, <<>>, Ok(0), 1)
    /\ base = Infinity
    /\ acc = Infinity
    /\ summands = 0
    /\ ecall = ECall("new", Infinity, Infinity, Infinity, Infinity, Ok(0), 0, FALSE)
    /\ FpIdle
    /\ SqIdle
    /\ FqIdle
    /\ PairIdle
    /\ RpIdle

\* if let Ok(res) = miller(curve, pt_p, pt_q, order) { Ok(res.pow(&e)) } else ...
TateMiller ==
    /\ tt.pc = "call"
    /\ LET m == miller(tt.p, tt.cur, tt.n)
       IN  tt' = IF m.ok
                 THEN [tt EXCEPT !.pc = "return",
                                 !.ret = Ok(pow(m.val, tate_exponent(tt.n, tt.k)))]
                 ELSE IF m.err = "panic" THEN [tt EXCEPT !.pc = "panicked"]
                 ELSE [tt EXCEPT !.pc = "sample"]
    /\ UNCHANGED <<P, fpVars, sq, fqVars, ecVars, pp, pq, pcall, rp>>

\* let pt_r = curve.clone().random_point(); then tate_pairing(P, Q + R) is
\* entered, leaving a frame for the waiting call: its Q, its R, which
\* recursive call it waits for, and f_qr once it has it
tate_descend(r, sum) ==
    IF sum.panic THEN [tt EXCEPT !.pc = "panicked"]
    ELSE [tt EXCEPT !.pc = "call", !.cur = sum.pt, !.calls = tt.calls + 1,
                    !.stack = Append(tt.stack, [q |-> tt.cur, r |-> r, phase |-> 1,
                                               first |-> 0])]

TateSample ==
    /\ tt.pc = "sample"
    /\ Len(tt.stack) < MaxDepth
    /\ \/ \E r \in random_point : tt' = tate_descend(r, ec_add_run(tt.cur, r))
       \/ /\ \E x \in random_element : ~rp_euler(x)
          /\ tt' = [tt EXCEPT !.pc = "panicked"]
    /\ UNCHANGED <<P, fpVars, sq, fqVars, ecVars, pp, pq, pcall, rp>>

\* the running call returns: to its caller, which then enters
\* tate_pairing(P, R) or returns f_qr / f_r, or out of the first call; an Err
\* goes through every `?` above it
tate_resume(top, rest) ==
    IF ~tt.ret.ok THEN [tt EXCEPT !.pc = "returned", !.stack = <<>>]
    ELSE IF top.phase = 1
    THEN [tt EXCEPT !.pc = "call", !.cur = top.r, !.calls = tt.calls + 1,
                    !.stack = Append(rest, [q |-> top.q, r |-> top.r, phase |-> 2,
                                           first |-> tt.ret.val])]
    ELSE [tt EXCEPT !.pc = "return", !.cur = top.q, !.stack = rest,
                    !.ret = div(top.first, tt.ret.val)]

TateReturn ==
    /\ tt.pc = "return"
    /\ tt' = IF tt.stack = <<>> THEN [tt EXCEPT !.pc = "returned"]
             ELSE tate_resume(tt.stack[Len(tt.stack)],
                              SubSeq(tt.stack, 1, Len(tt.stack) - 1))
    /\ UNCHANGED <<P, fpVars, sq, fqVars, ecVars, pp, pq, pcall, rp>>

NextTate == TateMiller \/ TateSample \/ TateReturn

SpecTate == InitTate /\ [][NextTate]_vars

(***************************************************************************)
(* Claims about tate_pairing, checked under SpecTate.                      *)
(***************************************************************************)
\* every value the Q of a tate_pairing call can take
TatePoints ==
    {Affine(x, y) : x \in (1 - P)..(P - 1), y \in (1 - P)..(P - 1)} \cup {Infinity}

\* some Q makes miller(P, Q, n) succeed
MillerCanSucceed == \E q \in TatePoints : miller(tt.p, q, tt.n).ok

\* C15: tate_pairing eventually returns.  When miller(P, Q, n) succeeds it
\* returns miller(P, Q, n)^((q^k - 1) / n) and does not recurse.  When it
\* fails the recursion on (P, Q + R) and (P, R) reaches calls whose miller
\* succeeds, so a call that draws R has some Q' with miller(P, Q', n)
\* successful: a failure that no Q' can avoid (P = Infinity, or one that
\* depends only on P and n) must not start the recursion, which could then
\* never return.
C15_TateReturns ==
    /\ (tt.pc = "returned" /\ tt.ret.ok /\ miller(tt.p, tt.cur, tt.n).ok) =>
           /\ tt.calls = 1
           /\ tt.ret = Ok(pow(miller(tt.p, tt.cur, tt.n).val,
                              tate_exponent(tt.n, tt.k)))
    /\ tt.pc = "sample" => MillerCanSucceed

====
